---- MODULE Spec2Model ----
(***************************************************************************)
(* FastCollections (QwikGeo collections API): the read-through tile cache  *)
(* of api/utilities.py (get_tile, delete_tile_cache) and the handlers of   *)
(* api/routers/collections/router.py that serve tiles and mutate a table.  *)
(*                                                                         *)
(* Every handler is a coroutine.  A step of the model is the code a        *)
(* coroutine runs between two awaits: the storage engine answers a query   *)
(* while other coroutines run, so a query and the code after it are two    *)
(* steps.  The cache is a directory tree on the local file system.         *)
(***************************************************************************)
EXTENDS Integers, Sequences, FiniteSets, TLC

(* ------------------------------ bounds --------------------------------- *)

\* largest property / geometry value a row can carry
MaxVal == 1
\* tile requests started in one behaviour
MaxRequests == 3
\* mutating requests started in one behaviour
MaxMutations == 1

(* ----------------------------- universe -------------------------------- *)

\* Optional[str] = None of the tile handler's query parameters
None == "<None>"

Tables == {<<"public", "states">>}
TileMatrixSets == {"WorldCRS84Quad"}
\* <<z, x, y>>: the world tile, and a tile no row of the table intersects
WorldTile == <<0, 0, 0>>
EmptyTile == <<4, 8, 5>>
Tiles == {WorldTile, EmptyTile}
Gids == {1}
Vals == 1..MaxVal
FieldsParams == {None, "p"}
FilterParams == {None, "p = 1"}
\* a filter that does not parse, and a filter on a column the table lacks
BadFilterParams == {"p LI 1", "q = 1"}
\* values of CACHE_AGE_IN_SECONDS the service may be configured with
CacheAges == {0, 60}
TileReqs == {1, 2}
Mutators == {1}
RowKinds == {"create_item", "update_item", "modify_item", "delete_item"}
ColumnKinds == {"add_column", "delete_column"}
\* the handlers that write the feature's geometry in a second statement
GeometryKinds == {"create_item", "update_item", "modify_item"}
NoRow == [p |-> 0, g |-> 0]
\* b"" : what ST_AsMVT returns for an empty row set, and a just-opened file
EmptyBytes == << >>

VARIABLES
    cacheAge,   \* config.CACHE_AGE_IN_SECONDS
    db,         \* table -> [rows: gid -> row, extra: an added column exists]
    dirs,       \* directories under cache/: <<"schema_table", tms, z, x>>
    files,      \* cache files: path -> bytes, path = <<"schema_table", tms, z, x, y>>
    treq,       \* tile request coroutines
    mut,        \* mutating request coroutines
    stored,     \* ghost: path -> bytes of the last completed store since the
                \*        last removal of the path
    nReq,       \* tile requests started
    nMut,       \* mutations started
    ireq        \* the coroutine of a feature request (items, download, ...)

vars == <<cacheAge, db, dirs, files, treq, mut, stored, nReq, nMut, ireq>>

(* ----------------------------- file system ----------------------------- *)

\* f'{schema}_{table}' of the cache path
CacheDirName(t) == t[1] \o "_" \o t[2]

\* a cache_file that swaps the tile's row and column
CacheFile_ColBeforeRow(t, tms, tile) == <<CacheDirName(t), tms, tile[1], tile[3], tile[2]>>

\* cache_file of get_tile
CacheFile(t, tms, tile) == <<CacheDirName(t), tms, tile[1], tile[2], tile[3]>>

\* cache_file_dir of get_tile
CacheFileDir(t, tms, tile) == <<CacheDirName(t), tms, tile[1], tile[2]>>

\* the handler writing the path with tile_col before tile_row
ResponsePath_ColBeforeRow(t, tms, tile) == <<CacheDirName(t), tms, tile[1], tile[3], tile[2]>>

\* the path FileResponse is given by the tile handler
ResponsePath(t, tms, tile) == <<CacheDirName(t), tms, tile[1], tile[2], tile[3]>>

\* os.path.exists of a file
FileExists(p) == p \in DOMAIN files

\* os.path.exists of the table's cache directory
TableDirExists(t) == \E d \in dirs : d[1] = CacheDirName(t)

\* rmtree of f'{schema}.{table}', a directory get_tile never writes
RmTreeFiles_DottedName(fs, t) == [p \in {q \in DOMAIN fs : q[1] # t[1] \o "." \o t[2]} |-> fs[p]]

\* shutil.rmtree of the table's cache directory, guarded by os.path.exists
RmTreeFiles(fs, t) == [p \in {q \in DOMAIN fs : q[1] # CacheDirName(t)} |-> fs[p]]

RmTreeDirs(ds, t) == {d \in ds : d[1] # CacheDirName(t)}

\* open(cache_file, "wb"): the file exists and is empty
OpenedFiles(fs, p) == [q \in DOMAIN fs \cup {p} |-> IF q = p THEN EmptyBytes ELSE fs[q]]

\* file.write(tile); file.close()
WrittenFiles(fs, p, bytes) == [q \in DOMAIN fs \cup {p} |-> IF q = p THEN bytes ELSE fs[q]]

(* ------------------------------- storage ------------------------------- *)

\* the rows the tile's envelope intersects: every row lies in the world tile
\* (a row whose geom is still NULL, g = 0, intersects nothing)
InTile(tile) == IF tile = WorldTile THEN Gids ELSE {}

\* the exception parse(cql_filter) or to_sql_where(ast, field_mapping) raises
\* in get_tile
FilterError(filt) ==
    CASE filt = "p LI 1" -> "UnexpectedToken"
      [] filt = "q = 1" -> "KeyError"
      [] OTHER -> "none"

\* to_sql_where(parse(cql_filter)) evaluated on a row
Matches(filt, row) == filt = None \/ row.p = 1

\* field_list of get_tile: every column, or the requested one
FieldList(dbt, fields) ==
    IF fields = None
    THEN IF dbt.extra THEN <<"gid", "p", "extra">> ELSE <<"gid", "p">>
    ELSE <<fields>>

RECURSIVE EncodeRows(_, _, _)
EncodeRows(dbt, gs, cols) ==
    IF gs = {} THEN << >>
    ELSE LET g == CHOOSE h \in gs : \A k \in gs : h <= k
         IN  << <<g, dbt.rows[g].p, dbt.rows[g].g, cols>> >>
             \o EncodeRows(dbt, gs \ {g}, cols)

\* sql_vector_query of get_tile, as the storage engine answers it
TileQueryResult(dbt, tile, fields, filt) ==
    EncodeRows(dbt,
               {g \in InTile(tile) : dbt.rows[g].g # 0 /\ Matches(filt, dbt.rows[g])},
               FieldList(dbt, fields))

\* the tile a live, unfiltered query of the table and tile returns now
LiveTile(t, tile) == TileQueryResult(db[t], tile, None, None)

(* -------------------------- feature requests --------------------------- *)

\* largest limit and offset a feature request carries
MaxLimit == 2
MaxOffset == 2

\* the table the feature endpoints are asked about
ItemsTable == <<"public", "states">>

\* properties = "*"; an explicit list "a,b" is the sequence <<"a", "b">> that
\* properties.split(",") gives, and "" is the empty sequence
Star == <<"*">>

\* a column add_column may have given the table
AddedColumns == {None, "return_geometry"}

\* the table's rows, by gid: state_name and whether geom lies in QueryBox
StateRows ==
    <<[state_name |-> "New York", box |-> TRUE],
      [state_name |-> "Ohio", box |-> TRUE],
      [state_name |-> "New York", box |-> FALSE]>>

\* the bbox a caller may send
QueryBox == "-80,40,-70,45"

FeatureOps == {"items", "post_items", "closest_features", "download"}
AnalyticsOps == {"statistics", "bins", "numeric_breaks", "custom_break_values"}

\* cql_filter texts a caller may send
FilterTexts ==
    {None, "state_name='New York'", "state_names='New York'",
     "state_name LI 'New York'", "state_name='New York"}

\* names of query parameters a caller may add to the URL of GET items
QueryParamNames == {"state_name", "state_names", "return_geometry", "limit"}

PropertiesParams ==
    {Star, << >>, <<"state_name">>, <<"state_name", "gid">>, <<"state_names">>,
     <<"gid", "state_names">>}

SortColumns == {"gid", "state_name"}

\* sortby as a caller may send it: no handler checks it against the catalog
SortbyParams == SortColumns \cup {"state_names"}

SeqToSet(sq) == {sq[i] : i \in DOMAIN sq}

\* request.query_params[name]
QueryParamValue(name) ==
    CASE name = "state_name" -> "New York"
      [] name = "state_names" -> "New York"
      [] name = "return_geometry" -> "false"
      [] name = "limit" -> "1"

\* db_fields of sql_field_query: the handlers other than GET items leave geom out
CatalogColumns(op, added) ==
    LET all == <<"gid", "state_name", "geom">> \o (IF added = None THEN << >> ELSE <<added>>)
    IN  IF op = "items" THEN all ELSE SelectSeq(all, LAMBDA c : c # "geom")

\* blacklist_query_parameters of GET items
BlacklistQueryParameters ==
    {"bbox", "limit", "offset", "properties", "sortby", "sortdesc", "cql_filter", "srid"}

\* the parameters GET items declares
DeclaredParameters ==
    {"bbox", "limit", "offset", "properties", "sortby", "sortdesc", "cql_filter", "srid",
     "return_geometry"}

\* new_query_parameters of GET items
NewQueryParameters(params) == params \ BlacklistQueryParameters

\* pygeofilter's parse: the AST of a comparison, or the lark exception raised
\* (UnexpectedToken by the parser, UnexpectedCharacters by the lexer)
Parse(text) ==
    CASE text = "state_name='New York'" ->
            [exc |-> "none", column |-> "state_name", literal |-> "New York"]
      [] text = "state_names='New York'" ->
            [exc |-> "none", column |-> "state_names", literal |-> "New York"]
      [] text = "state_name LI 'New York'" ->
            [exc |-> "UnexpectedToken", column |-> "", literal |-> ""]
      [] text = "state_name='New York" ->
            [exc |-> "UnexpectedCharacters", column |-> "", literal |-> ""]

\* a predicate of a WHERE clause: k is its kind, val the caller's literal, and
\* inl says the literal is written into the query text
NoPart == [k |-> "", col |-> "", val |-> "", inl |-> FALSE]

\* to_sql_where(ast, field_mapping): a column that is not a key of field_mapping
\* raises KeyError(column); the fragment carries the literal as a placeholder
ToSqlWhere(ast, fields) ==
    IF ast.column \in SeqToSet(fields)
    THEN [exc |-> "none", arg |-> "",
          part |-> [k |-> "filter", col |-> ast.column, val |-> ast.literal, inl |-> FALSE]]
    ELSE [exc |-> "KeyError", arg |-> ast.column, part |-> NoPart]

\* a validation that accepts every properties list
BadProperties_None(properties, fields) == << >>

\* the entries of an explicit properties list that are not columns
BadProperties(properties, fields) ==
    IF properties = Star THEN << >>
    ELSE SelectSeq(properties, LAMBDA c : c \notin SeqToSet(fields))

\* properties as the handler passes it on: "*" becomes every column, quoted
Projection(properties, fields) == IF properties = Star THEN fields ELSE properties

RECURSIVE ColumnWhereParameters(_, _)
\* column_where_parameters: one equality per column named by a query parameter,
\* in catalog order, the value written between quotes
ColumnWhereParameters(fields, names) ==
    IF fields = << >> THEN << >>
    ELSE (IF Head(fields) \in names
          THEN <<[k |-> "eq", col |-> Head(fields),
                  val |-> QueryParamValue(Head(fields)), inl |-> TRUE]>>
          ELSE << >>) \o ColumnWhereParameters(Tail(fields), names)

\* detail of the HTTPException for a properties entry that is not a column
ColumnDetail(property, t) ==
    <<"Column: ", property, " is not a column for ", t[1], ".", t[2], ".">>

\* detail of the HTTPException for a filter that does not parse
InvalidOperatorDetail == <<"Invalid operator used in cql_filter.">>

\* the detail without the table
InvalidColumnDetail_NoTable(t) == <<"Invalid column in cql_filter parameter.">>

\* detail of the HTTPException for a filter column that is not in field_mapping
InvalidColumnDetail(t) ==
    <<"Invalid column in cql_filter parameter for ", t[1], ".", t[2], ".">>

\* largest value of the numeric column, most bins or breaks asked for, and
\* most ranges a custom_break_values request carries
MaxPopulation == 3
MaxBins == 3
MaxRanges == 2

RECURSIVE Factorial(_)
Factorial(n) == IF n <= 1 THEN 1 ELSE n * Factorial(n - 1)

\* the bounds of a break are fractions: a number x is held as the integer
\* x * Scale, and Scale is a multiple of every number of bins
Scale == Factorial(MaxBins)

\* the numeric column (population) of the table, by gid, as the storage engine
\* holds it
PopulationColumns == [DOMAIN StateRows -> 0..MaxPopulation]

\* SELECT MIN(column), MAX(column)
MinOf(column) == CHOOSE v \in SeqToSet(column) : \A w \in SeqToSet(column) : v <= w
MaxOf(column) == CHOOSE v \in SeqToSet(column) : \A w \in SeqToSet(column) : v >= w

\* the arrays {break_type}_bins(array_agg(column), number_of_breaks) may give:
\* values of the column's range in ascending order
BreakPointLists(column) ==
    {sq \in UNION {[1..k -> MinOf(column)..MaxOf(column)] : k \in 1..MaxBins} :
        \A i, j \in DOMAIN sq : i < j => sq[i] <= sq[j]}

\* info.breaks of custom_break_values: a list of BinModel
RangeLists ==
    UNION {[1..k -> [min : 0..MaxPopulation, max : 0..MaxPopulation]] : k \in 1..MaxRanges}

\* the inputs and the results of a classification request
NoCls == [column |-> << >>, number |-> 0, points |-> << >>, ranges |-> << >>,
          results |-> << >>]

\* the offsets of the "next" and "prev" links of an items response, -1 for a
\* link the response does not carry
NoLinks == [next |-> -1, prev |-> -1]

NoQuery ==
    [select |-> << >>, where |-> << >>, text |-> << >>, orderBy |-> << >>, offset |-> -1,
     limit |-> -1, args |-> << >>]

IdleItems ==
    [pc |-> "idle", op |-> "", added |-> None, params |-> {}, properties |-> << >>,
     projection |-> << >>, filt |-> None, bbox |-> None, limit |-> 0, offset |-> 0, sortby |-> "",
     sortdesc |-> 1, where |-> << >>, query |-> NoQuery, count_query |-> NoQuery,
     executed |-> << >>, features |-> << >>, numberMatched |-> -1,
     status |-> 0, detail |-> << >>, exc |-> "none", excArg |-> "", cls |-> NoCls,
     links |-> NoLinks, walked |-> << >>]

(* --------------------------- tile requests ----------------------------- *)

IdleReq ==
    [pc |-> "idle", table |-> <<"", "">>, tms |-> "", tile |-> <<0, 0, 0>>,
     fields |-> None, filt |-> None, pbf |-> EmptyBytes, live |-> FALSE,
     status |-> 0, body |-> EmptyBytes, maxAge |-> 0, tileCache |-> FALSE,
     err |-> "none"]

IdleMut ==
    [pc |-> "idle", kind |-> "", table |-> <<"", "">>, id |-> 0, infoId |-> 0,
     p |-> 0, g |-> 0, geomNull |-> FALSE, wrote |-> FALSE, pre |-> {},
     status |-> 0]

\* no coroutine is between open() and file.close(): that code has no await,
\* so the event loop runs nothing else until it is through
LoopFree == \A r \in TileReqs : treq[r].pc # "write"

\* the store condition without its max-age conjunct
Cacheable_AnyMaxAge(fields, filt) == fields = None /\ filt = None

\* the store condition of get_tile
Cacheable(fields, filt) == fields = None /\ filt = None /\ cacheAge > 0

\* max_cache_age of the tile handler
MaxCacheAge(fields, filt) ==
    IF fields # None /\ filt # None THEN 0 ELSE cacheAge

\* response_code of the tile handler for a computed tile
ResponseCode(pbf) == IF pbf = EmptyBytes THEN 204 ELSE 200

\* a path leaves the cache or is rewritten: it is no longer an entry that was
\* cached before a running mutation began
Forget(paths) == [m \in Mutators |-> [mut[m] EXCEPT !.pre = @ \ paths]]

\* a table as the service finds it: each row absent or loaded with its geometry
InitialTables ==
    {[rows |-> rs, extra |-> FALSE] : rs \in [Gids -> {NoRow, [p |-> 1, g |-> 1]}]}

\* a new tile request runs in the first coroutine slot that is free
FreeSlot == IF \E r \in TileReqs : treq[r].pc = "idle"
            THEN CHOOSE r \in TileReqs : treq[r].pc = "idle"
                                         /\ \A q \in TileReqs : treq[q].pc = "idle" => r <= q
            ELSE 0

Init ==
    /\ cacheAge \in CacheAges
    /\ db \in [Tables -> InitialTables]
    /\ dirs = {}
    /\ files = << >>
    /\ treq = [r \in TileReqs |-> IdleReq]
    /\ mut = [m \in Mutators |-> IdleMut]
    /\ stored = << >>
    /\ nReq = 0
    /\ nMut = 0
    /\ ireq = IdleItems

\* get_tile up to its first await: the cache lookup
TileLookup(r, t, tms, tile, fields, filt) ==
    /\ LoopFree
    /\ r = FreeSlot
    /\ nReq < MaxRequests
    /\ nReq' = nReq + 1
    /\ LET hit == FileExists(CacheFile(t, tms, tile))
       IN  treq' = [treq EXCEPT ![r] =
                [IdleReq EXCEPT !.pc = IF hit THEN "send" ELSE "query",
                                !.table = t, !.tms = tms, !.tile = tile,
                                !.fields = fields, !.filt = filt,
                                !.tileCache = hit]]
    /\ UNCHANGED <<cacheAge, db, dirs, files, mut, stored, nMut, ireq>>

\* an exception leaves the handler: the framework answers 500
Fail(q, why) == [q EXCEPT !.pc = "done", !.status = 500, !.err = why, !.pbf = EmptyBytes]

\* the catalog is read and the filter compiled, then the storage engine answers
\* sql_vector_query; an exception of parse or to_sql_where leaves get_tile and
\* the handler before the query is sent
TileQuery(r) ==
    /\ LoopFree
    /\ treq[r].pc = "query"
    /\ treq' = IF FilterError(treq[r].filt) # "none"
               THEN [treq EXCEPT ![r] = Fail(treq[r], FilterError(treq[r].filt))]
               ELSE [treq EXCEPT ![r].pc = "fetched",
                                 ![r].live = TRUE,
                                 ![r].pbf = TileQueryResult(db[treq[r].table], treq[r].tile,
                                                            treq[r].fields, treq[r].filt)]
    /\ UNCHANGED <<cacheAge, db, dirs, files, mut, stored, nReq, nMut, ireq>>

\* the Response the tile handler builds from a computed tile
Respond(q) ==
    [q EXCEPT !.pc = "done", !.status = ResponseCode(q.pbf), !.body = q.pbf,
              !.maxAge = MaxCacheAge(q.fields, q.filt), !.tileCache = FALSE,
              !.pbf = EmptyBytes]

\* get_tile after the query: the store decision, makedirs and open();
\* mkdirOk and openOk are the outcomes the file system gives the two calls
TileStore(r, mkdirOk, openOk) ==
    /\ LoopFree
    /\ treq[r].pc = "fetched"
    /\ LET q == treq[r]
           file == CacheFile(q.table, q.tms, q.tile)
           dir == CacheFileDir(q.table, q.tms, q.tile)
           dirsAfter == IF dir \notin dirs /\ mkdirOk THEN dirs \cup {dir} ELSE dirs
       IN  IF Cacheable(q.fields, q.filt)
           THEN /\ dirs' = dirsAfter
                /\ IF dir \in dirsAfter /\ openOk
                   THEN /\ files' = OpenedFiles(files, file)
                        /\ stored' = [p \in DOMAIN stored \ {file} |-> stored[p]]
                        /\ mut' = Forget({file})
                        /\ treq' = [treq EXCEPT ![r].pc = "write"]
                   ELSE /\ treq' = [treq EXCEPT ![r] = Fail(q, "cache_io")]
                        /\ UNCHANGED <<files, stored, mut>>
           ELSE \* nothing is written: the file system is not called
                /\ mkdirOk /\ openOk
                /\ treq' = [treq EXCEPT ![r] = Respond(q)]
                /\ UNCHANGED <<dirs, files, stored, mut>>
    /\ UNCHANGED <<cacheAge, db, nReq, nMut, ireq>>

\* file.write(tile); file.close(); return tile, False; the handler's Response
TileWrite(r) ==
    /\ treq[r].pc = "write"
    /\ LET q == treq[r]
           file == CacheFile(q.table, q.tms, q.tile)
       IN  /\ files' = WrittenFiles(files, file, q.pbf)
           /\ stored' = [p \in DOMAIN stored \cup {file} |->
                            IF p = file THEN q.pbf ELSE stored[p]]
           /\ treq' = [treq EXCEPT ![r] = Respond(q)]
    /\ UNCHANGED <<cacheAge, db, dirs, mut, nReq, nMut, ireq>>

\* FileResponse reads the file in a worker thread while the response is sent
TileSend(r) ==
    /\ treq[r].pc = "send"
    /\ LET q == treq[r]
           path == ResponsePath(q.table, q.tms, q.tile)
       IN  treq' = [treq EXCEPT ![r] =
                IF FileExists(path)
                THEN [q EXCEPT !.pc = "done", !.status = 200, !.body = files[path],
                               !.maxAge = MaxCacheAge(q.fields, q.filt),
                               !.tileCache = TRUE]
                ELSE Fail(q, "cache_io")]
    /\ UNCHANGED <<cacheAge, db, dirs, files, mut, stored, nReq, nMut, ireq>>

\* the response has been delivered: the coroutine ends
TileFinish(r) ==
    /\ LoopFree
    /\ treq[r].pc = "done"
    /\ treq' = [treq EXCEPT ![r] = IdleReq]
    /\ UNCHANGED <<cacheAge, db, dirs, files, mut, stored, nReq, nMut, ireq>>

(* ------------------------- mutating requests --------------------------- *)

\* the cache entries of the table that are complete when a mutation begins
CachedNow(t) == {p \in DOMAIN stored : p[1] = CacheDirName(t)}

\* a mutating handler up to its first write: the catalog query, the exists
\* check of update_item / modify_item and the validation of the properties
MutStart(m, kind, t, id, infoId, p, g, geomNull, valid) ==
    /\ LoopFree
    /\ mut[m].pc = "idle"
    /\ nMut < MaxMutations
    /\ nMut' = nMut + 1
    /\ kind \notin GeometryKinds => valid /\ ~geomNull /\ p = 1 /\ g = 1
    /\ kind \in ColumnKinds \cup {"create_item"} => id = 1
    /\ kind # "update_item" => infoId = id
    /\ kind = "create_item" => \E h \in Gids : db[t].rows[h] = NoRow
    /\ LET exists == kind \in {"update_item", "modify_item"} => db[t].rows[id] # NoRow
           started == [IdleMut EXCEPT !.kind = kind, !.table = t,
                                      !.id = IF kind \in {"update_item", "modify_item", "delete_item"}
                                             THEN id ELSE 0,
                                      !.infoId = IF kind = "update_item" THEN infoId ELSE 0,
                                      !.p = IF kind \in GeometryKinds THEN p ELSE 0,
                                      !.g = IF kind \in GeometryKinds /\ ~geomNull THEN g ELSE 0,
                                      !.geomNull = geomNull, !.pre = CachedNow(t)]
       IN  mut' = [mut EXCEPT ![m] =
                IF exists /\ valid
                THEN [started EXCEPT !.pc = "write"]
                ELSE [IdleMut EXCEPT !.pc = "done", !.kind = kind, !.table = t,
                                     !.status = 400, !.pre = CachedNow(t)]]
    /\ UNCHANGED <<cacheAge, db, dirs, files, treq, stored, nReq, ireq>>

\* the gid INSERT ... RETURNING gid gives the new row
NewGid(dbt) == CHOOSE h \in Gids : dbt.rows[h] = NoRow /\ \A k \in Gids : dbt.rows[k] = NoRow => h <= k

\* the table after the handler's first statement
FirstWrite(dbt, q) ==
    CASE q.kind = "create_item" ->
            [dbt EXCEPT !.rows[NewGid(dbt)] = [p |-> q.p, g |-> 0]]
      [] q.kind = "update_item" ->
            IF dbt.rows[q.infoId] # NoRow
            THEN [dbt EXCEPT !.rows[q.infoId].p = q.p] ELSE dbt
      [] q.kind = "modify_item" ->
            IF dbt.rows[q.id] # NoRow
            THEN [dbt EXCEPT !.rows[q.id].p = q.p] ELSE dbt
      [] q.kind = "delete_item" ->
            [dbt EXCEPT !.rows[q.id] = NoRow]
      [] q.kind = "add_column" -> [dbt EXCEPT !.extra = TRUE]
      [] q.kind = "delete_column" -> [dbt EXCEPT !.extra = FALSE]

\* the storage engine executes the first statement (INSERT, UPDATE of the
\* properties, DELETE, ALTER TABLE); the handler goes on to build the geometry
\* statement, which raises when the feature has no geometry
MutWrite(m) ==
    /\ LoopFree
    /\ mut[m].pc = "write"
    /\ LET q == mut[m]
           t == q.table
           ended == [IdleMut EXCEPT !.pc = "done", !.kind = q.kind, !.table = t,
                                    !.status = 500, !.pre = q.pre]
       IN  IF q.kind = "add_column" /\ db[t].extra
           THEN \* ADD COLUMN of an existing column: the statement fails
                /\ mut' = [mut EXCEPT ![m] = ended]
                /\ db' = db
           ELSE /\ db' = [db EXCEPT ![t] = FirstWrite(db[t], q)]
                /\ mut' = [mut EXCEPT ![m] =
                        IF q.kind \in GeometryKinds
                        THEN IF q.geomNull
                             THEN [ended EXCEPT !.wrote = TRUE]
                             ELSE [q EXCEPT !.pc = "geom", !.wrote = TRUE, !.p = 0,
                                            !.infoId = 0,
                                            !.id = IF q.kind = "create_item"
                                                   THEN NewGid(db[t]) ELSE q.id]
                        ELSE [q EXCEPT !.pc = "invalidate", !.wrote = TRUE, !.id = 0,
                                       !.infoId = 0]]
    /\ UNCHANGED <<cacheAge, dirs, files, treq, stored, nReq, nMut, ireq>>

\* UPDATE ... SET geom = ST_GeomFromGeoJSON(...) WHERE gid = id
MutGeom(m) ==
    /\ LoopFree
    /\ mut[m].pc = "geom"
    /\ LET q == mut[m]
           t == q.table
       IN  db' = [db EXCEPT ![t] = IF db[t].rows[q.id] # NoRow
                                   THEN [db[t] EXCEPT !.rows[q.id].g = q.g]
                                   ELSE db[t]]
    /\ mut' = [mut EXCEPT ![m].pc = "invalidate", ![m].g = 0]
    /\ UNCHANGED <<cacheAge, dirs, files, treq, stored, nReq, nMut, ireq>>

\* the files, directories and ghost after rmtree of the table's directory
Invalidated(t) ==
    /\ files' = RmTreeFiles(files, t)
    /\ dirs' = RmTreeDirs(dirs, t)
    /\ stored' = [p \in {q \in DOMAIN stored : q \in DOMAIN RmTreeFiles(files, t)} |-> stored[p]]

\* status of a mutating handler that ran to its return statement
ReturnStatus(kind) == IF kind = "create_item" THEN 500 ELSE 200

\* the handler's tail: rmtree of the table's cache directory, then the return
\* (create_item reads result[0]["id"], a column the INSERT does not return)
MutInvalidate(m) ==
    /\ LoopFree
    /\ mut[m].pc = "invalidate"
    /\ Invalidated(mut[m].table)
    /\ mut' = [n \in Mutators |->
                IF n = m
                THEN [mut[m] EXCEPT !.pc = "done", !.status = ReturnStatus(mut[m].kind),
                                    !.id = 0, !.pre = @ \cap DOMAIN files']
                ELSE [mut[n] EXCEPT !.pre = @ \cap DOMAIN files']]
    /\ UNCHANGED <<cacheAge, db, treq, nReq, nMut, ireq>>

\* DELETE .../tiles/cache: delete_tile_cache, which has no await
DeleteTileCache(m, t) ==
    /\ LoopFree
    /\ mut[m].pc = "idle"
    /\ nMut < MaxMutations
    /\ nMut' = nMut + 1
    /\ Invalidated(t)
    /\ mut' = [n \in Mutators |->
                IF n = m
                THEN [IdleMut EXCEPT !.pc = "done", !.kind = "delete_tile_cache",
                                     !.table = t, !.status = 200]
                ELSE [mut[n] EXCEPT !.pre = @ \cap DOMAIN files']]
    /\ UNCHANGED <<cacheAge, db, treq, nReq, ireq>>

\* the response has been delivered: the coroutine ends
MutFinish(m) ==
    /\ LoopFree
    /\ mut[m].pc = "done"
    /\ mut' = [mut EXCEPT ![m] = IdleMut]
    /\ UNCHANGED <<cacheAge, db, dirs, files, treq, stored, nReq, nMut, ireq>>

(* ------------------------ feature request steps ------------------------ *)

\* the HTTPException raised with status 422
Respond400_As422(q, detail) == [q EXCEPT !.pc = "done", !.status = 422, !.detail = detail]

\* raise HTTPException(status_code=400, detail=...)
Respond400(q, detail) == [q EXCEPT !.pc = "done", !.status = 400, !.detail = detail]

\* an exception no handler catches: the framework answers 500
Unhandled(q, exc, arg) ==
    [q EXCEPT !.pc = "done", !.status = 500, !.exc = exc, !.excArg = arg]

\* the request is routed and its parameters are bound; the handler runs to its
\* first await
Receive(op, added, params, properties, filt) ==
    /\ ireq.pc = "idle"
    /\ op # "items" => params = {}
    /\ op \notin {"items", "post_items"} => properties = Star
    /\ op \in AnalyticsOps => added = None
    /\ ireq' = [IdleItems EXCEPT !.pc = "handler", !.op = op, !.added = added,
                                 !.params = params, !.properties = properties,
                                 !.filt = filt]
    /\ UNCHANGED <<cacheAge, db, dirs, files, treq, mut, stored, nReq, nMut>>

\* cql_filter as GET items merges it: the compiled filter, then the column
\* equalities
MergedFilter(q, sql, colw) == (IF q.filt # None THEN <<sql.part>> ELSE << >>) \o colw

\* the call utilities.get_table_geojson(..., cql_filter=cql_filter, ...): the
\* function has no parameter of that name, so the call raises TypeError
CallGetTableGeojson(q, where, properties) ==
    [Unhandled(q, "TypeError", "cql_filter") EXCEPT !.where = where,
                                                     !.projection = properties]

\* GET items after the catalog query, to its end
ItemsHandler(q) ==
    LET fields == CatalogColumns("items", q.added)
        bad == BadProperties(q.properties, fields)
        colw == ColumnWhereParameters(fields, NewQueryParameters(q.params))
        ast == Parse(q.filt)
        sql == ToSqlWhere(ast, fields)
        q1 == [q EXCEPT !.executed = <<"catalog">>]
    IN  IF bad # << >>
        THEN Respond400(q1, ColumnDetail(bad[1], ItemsTable))
        ELSE IF q.filt # None /\ ast.exc # "none"
        THEN [Respond400(q1, InvalidOperatorDetail) EXCEPT !.exc = ast.exc]
        ELSE IF q.filt # None /\ sql.exc # "none"
        THEN [Respond400(q1, InvalidColumnDetail(ItemsTable))
                EXCEPT !.exc = sql.exc, !.excArg = sql.arg]
        ELSE CallGetTableGeojson(q1, MergedFilter(q, sql, colw),
                                 Projection(q.properties, fields))

\* POST items after the catalog query, to its end
PostItemsHandler(q) ==
    LET fields == CatalogColumns("post_items", q.added)
        bad == BadProperties(q.properties, fields)
        ast == Parse(q.filt)
        sql == ToSqlWhere(ast, fields)
        q1 == [q EXCEPT !.executed = <<"catalog">>]
    IN  IF bad # << >>
        THEN Respond400(q1, ColumnDetail(bad[1], ItemsTable))
        ELSE IF q.filt # None /\ ast.exc = "UnexpectedToken"
        THEN [Respond400(q1, InvalidOperatorDetail) EXCEPT !.exc = ast.exc]
        ELSE IF q.filt # None /\ ast.exc # "none"
        THEN Unhandled(q1, ast.exc, "")
        ELSE IF q.filt # None /\ sql.exc # "none"
        THEN [Respond400(q1, InvalidColumnDetail(ItemsTable))
                EXCEPT !.exc = sql.exc, !.excArg = sql.arg]
        ELSE CallGetTableGeojson(q1, IF q.filt # None THEN <<sql.part>> ELSE << >>,
                                 Projection(q.properties, fields))

\* closest_features: the catalog is read only when a filter is given
ClosestFeaturesHandler(q) ==
    LET fields == CatalogColumns("closest_features", q.added)
        ast == Parse(q.filt)
        sql == ToSqlWhere(ast, fields)
        q1 == [q EXCEPT !.executed = IF q.filt # None THEN <<"catalog">> ELSE << >>]
    IN  IF q.filt # None /\ ast.exc = "UnexpectedToken"
        THEN [Respond400(q1, InvalidOperatorDetail) EXCEPT !.exc = ast.exc]
        ELSE IF q.filt # None /\ ast.exc # "none"
        THEN Unhandled(q1, ast.exc, "")
        ELSE IF q.filt # None /\ sql.exc # "none"
        THEN [Respond400(q1, InvalidColumnDetail(ItemsTable))
                EXCEPT !.exc = sql.exc, !.excArg = sql.arg]
        ELSE CallGetTableGeojson(q1, IF q.filt # None THEN <<sql.part>> ELSE << >>,
                                 q.properties)

\* download: the query is handed to ogr2ogr, which runs it
DownloadHandler(q) ==
    LET fields == CatalogColumns("download", q.added)
        ast == Parse(q.filt)
        sql == ToSqlWhere(ast, fields)
        q1 == [q EXCEPT !.executed = IF q.filt # None THEN <<"catalog">> ELSE << >>]
    IN  IF q.filt # None /\ ast.exc = "UnexpectedToken"
        THEN [Respond400(q1, InvalidOperatorDetail) EXCEPT !.exc = ast.exc]
        ELSE IF q.filt # None /\ ast.exc # "none"
        THEN Unhandled(q1, ast.exc, "")
        ELSE IF q.filt # None /\ sql.exc # "none"
        THEN [Respond400(q1, InvalidColumnDetail(ItemsTable))
                EXCEPT !.exc = sql.exc, !.excArg = sql.arg]
        ELSE [q1 EXCEPT !.pc = "done", !.status = 200,
                        !.where = IF q.filt # None THEN <<sql.part>> ELSE << >>,
                        !.executed = q1.executed \o <<"data">>]

\* statistics (with an aggregate), bins, numeric_breaks, custom_break_values:
\* utilities.generate_where_clause(schema=schema, table=table, info=info,
\* con=con) names parameters the function does not have
AnalyticsHandler(q) == Unhandled(q, "TypeError", "schema")

\* the handler of the request's endpoint runs from its first await to its end
Handle(op) ==
    /\ ireq.pc = "handler"
    /\ ireq.op = op
    /\ ireq' = CASE op = "items" -> ItemsHandler(ireq)
                 [] op = "post_items" -> PostItemsHandler(ireq)
                 [] op = "closest_features" -> ClosestFeaturesHandler(ireq)
                 [] op = "download" -> DownloadHandler(ireq)
                 [] op \in AnalyticsOps -> AnalyticsHandler(ireq)
    /\ UNCHANGED <<cacheAge, db, dirs, files, treq, mut, stored, nReq, nMut>>

\* the rows a predicate of a WHERE clause keeps
Holds(part, row) ==
    CASE part.k = "bbox" -> row.box
      [] part.col = "state_name" -> row.state_name = part.val
      [] OTHER -> FALSE

\* the gids of the rows a WHERE clause keeps
Matching(where) ==
    {g \in DOMAIN StateRows : \A i \in DOMAIN where : Holds(where[i], StateRows[g])}

RECURSIVE Perms(_)
Perms(S) ==
    IF S = {} THEN {<< >>}
    ELSE UNION {{<<x>> \o sq : sq \in Perms(S \ {x})} : x \in S}

\* the sort key of a row
SortKey(col, g) ==
    IF col = "gid" THEN g ELSE IF StateRows[g].state_name = "New York" THEN 1 ELSE 2

\* the orders in which the storage engine may return the rows: any order that
\* agrees with ORDER BY, and any order at all when the query has none
Orders(S, orderBy) ==
    {sq \in Perms(S) :
        orderBy # << >> =>
            \A i, j \in DOMAIN sq :
                i < j => IF orderBy[2] = "asc"
                         THEN SortKey(orderBy[1], sq[i]) <= SortKey(orderBy[1], sq[j])
                         ELSE SortKey(orderBy[1], sq[i]) >= SortKey(orderBy[1], sq[j])}

\* OFFSET offset LIMIT limit of a row sequence
Page(sq, offset, limit) ==
    SubSeq(sq, offset + 1, IF offset + limit < Len(sq) THEN offset + limit ELSE Len(sq))

\* the bbox predicate of get_table_geojson: the coordinates are written into
\* ST_MakeEnvelope
BboxWhere(bbox) ==
    IF bbox = None THEN << >>
    ELSE <<[k |-> "bbox", col |-> "geom", val |-> bbox, inl |-> TRUE]>>

RECURSIVE Conjoined(_)
\* the text of a filter: its predicates, each named by its kind, " AND " between
\* them as GET items joins the column equalities and appends them to the filter
Conjoined(parts) ==
    IF parts = << >> THEN << >>
    ELSE IF Len(parts) = 1 THEN <<parts[1].k>>
    ELSE <<parts[1].k, "AND">> \o Conjoined(Tail(parts))

\* the bbox predicate introduced by its own WHERE after a filter
WhereText_WhereTwice(filter, bbox) ==
    (IF filter # << >> THEN <<"WHERE">> \o Conjoined(filter) ELSE << >>)
    \o (IF bbox # None THEN <<"WHERE", "bbox">> ELSE << >>)

\* the text get_table_geojson appends to query and to count_query: "WHERE
\* {filter}", then the bbox predicate after " AND " or " WHERE "
WhereText(filter, bbox) ==
    (IF filter # << >> THEN <<"WHERE">> \o Conjoined(filter) ELSE << >>)
    \o (IF bbox # None
        THEN (IF filter # << >> THEN <<"AND">> ELSE <<"WHERE">>) \o <<"bbox">>
        ELSE << >>)

\* the ORDER BY clause of get_table_geojson: none when sortby is "gid"
OrderBy(sortby, sortdesc) ==
    IF sortby # "gid" THEN <<sortby, IF sortdesc # 1 THEN "desc" ELSE "asc">> ELSE << >>

\* query of get_table_geojson (return_geometry = True)
DataQuery(filter, bbox, limit, offset, properties, sortby, sortdesc) ==
    [select |-> IF properties # Star /\ properties # << >>
                THEN properties \o <<"ST_Transform(geom)">>
                ELSE <<"ST_Transform(geom)", "gid">>,
     where |-> filter \o BboxWhere(bbox), text |-> WhereText(filter, bbox),
     orderBy |-> OrderBy(sortby, sortdesc),
     offset |-> offset, limit |-> limit, args |-> << >>]

\* a count query that is cut to the page
CountQuery_Paged(filter, bbox, limit, offset) ==
    [select |-> <<"COUNT(*)">>, where |-> filter \o BboxWhere(bbox),
     text |-> WhereText(filter, bbox), orderBy |-> << >>,
     offset |-> offset, limit |-> limit, args |-> << >>]

\* count_query of get_table_geojson
CountQuery(filter, bbox, limit, offset) ==
    [select |-> <<"COUNT(*)">>, where |-> filter \o BboxWhere(bbox),
     text |-> WhereText(filter, bbox), orderBy |-> << >>,
     offset |-> -1, limit |-> -1, args |-> << >>]

\* the WHERE text get_table_geojson may be given as filter
GeoFilters ==
    {<< >>,
     <<[k |-> "filter", col |-> "state_name", val |-> "New York", inl |-> FALSE]>>,
     <<[k |-> "eq", col |-> "state_name", val |-> "New York", inl |-> TRUE]>>,
     <<[k |-> "filter", col |-> "state_name", val |-> "New York", inl |-> FALSE],
       [k |-> "eq", col |-> "state_name", val |-> "New York", inl |-> TRUE]>>,
     <<[k |-> "eq", col |-> "gid", val |-> "New York", inl |-> TRUE]>>}

\* get_table_geojson called with its own parameter names, up to the data query
GetTableGeojson(filter, bbox, limit, offset, properties, sortby, sortdesc) ==
    /\ ireq.pc = "idle"
    /\ ireq' = [IdleItems EXCEPT
                    !.pc = "data", !.op = "get_table_geojson", !.where = filter,
                    !.bbox = bbox, !.limit = limit, !.offset = offset,
                    !.properties = properties, !.sortby = sortby, !.sortdesc = sortdesc,
                    !.query = DataQuery(filter, bbox, limit, offset, properties,
                                        sortby, sortdesc),
                    !.count_query = CountQuery(filter, bbox, limit, offset)]
    /\ UNCHANGED <<cacheAge, db, dirs, files, treq, mut, stored, nReq, nMut>>

\* the rows a count query counts: OFFSET and LIMIT apply to its one result row
Counted(cq) ==
    LET n == Cardinality(Matching(cq.where))
    IN  IF cq.limit = -1 THEN n
        ELSE IF cq.offset > 0 \/ cq.limit = 0 THEN -1 ELSE n

\* the errors the storage engine may raise for a query: a sort column the
\* table lacks, a text literal compared with the integer column gid
StorageErrors(query) ==
    (IF query.orderBy # << >> /\ query.orderBy[1] \notin SortColumns
     THEN {[exc |-> "UndefinedColumnError",
            msg |-> "column \"" \o query.orderBy[1] \o "\" does not exist"]}
     ELSE {})
    \cup {[exc |-> "InvalidTextRepresentationError",
           msg |-> "invalid input syntax for type integer: \"" \o query.where[i].val \o "\""] :
            i \in {j \in DOMAIN query.where :
                        query.where[j].col = "gid" /\ query.where[j].val = "New York"}}

\* the asyncpg exceptions get_table_geojson catches around the data query
CaughtStorageErrors == {"InvalidTextRepresentationError", "UndefinedFunctionError"}

\* the data query raised: HTTPException(400, str(error)) for the exceptions
\* caught, and the exception leaves the function for every other
DataFetchFailed(q, err) ==
    LET q1 == [q EXCEPT !.executed = @ \o <<"data">>]
    IN  IF err.exc \in CaughtStorageErrors
        THEN [Respond400(q1, <<err.msg>>) EXCEPT !.exc = err.exc, !.excArg = err.msg]
        ELSE Unhandled(q1, err.exc, err.msg)

\* the storage engine answers the data query, with rows or with an error
GeoData(order) ==
    /\ ireq.pc = "data"
    /\ IF StorageErrors(ireq.query) = {}
       THEN /\ order \in Orders(Matching(ireq.query.where), ireq.query.orderBy)
            /\ ireq' = [ireq EXCEPT !.pc = "count",
                            !.features = Page(order, ireq.query.offset, ireq.query.limit),
                            !.executed = @ \o <<"data">>]
       ELSE /\ order = << >>
            /\ \E err \in StorageErrors(ireq.query) : ireq' = DataFetchFailed(ireq, err)
    /\ UNCHANGED <<cacheAge, db, dirs, files, treq, mut, stored, nReq, nMut>>

\* the storage engine answers the count query; numberMatched, numberReturned
GeoCount ==
    /\ ireq.pc = "count"
    /\ ireq' = [ireq EXCEPT !.pc = "done", !.status = 200,
                            !.numberMatched = Counted(ireq.count_query),
                            !.executed = @ \o <<"count">>]
    /\ UNCHANGED <<cacheAge, db, dirs, files, treq, mut, stored, nReq, nMut>>

\* the response has been delivered
ItemsFinish ==
    /\ ireq.pc = "done"
    /\ ireq' = IdleItems
    /\ UNCHANGED <<cacheAge, db, dirs, files, treq, mut, stored, nReq, nMut>>

\* the feature endpoints and the analytics endpoints
ItemsNext ==
    \/ \E op \in FeatureOps \cup AnalyticsOps, added \in AddedColumns,
          params \in SUBSET QueryParamNames, properties \in PropertiesParams,
          filt \in FilterTexts :
            Receive(op, added, params, properties, filt)
    \/ \E op \in FeatureOps \cup AnalyticsOps : Handle(op)
    \/ \E filter \in GeoFilters, bbox \in {None, QueryBox}, limit \in 0..MaxLimit,
          offset \in 0..MaxOffset, properties \in {Star, <<"state_name">>},
          sortby \in SortbyParams, sortdesc \in {0, 1} :
            GetTableGeojson(filter, bbox, limit, offset, properties, sortby, sortdesc)
    \/ \E order \in Perms(DOMAIN StateRows) \cup UNION {Perms(S) : S \in SUBSET DOMAIN StateRows} :
            GeoData(order)
    \/ GeoCount
    \/ ItemsFinish

SpecItems == Init /\ [][ItemsNext]_vars

(* --------------------------- classification ---------------------------- *)

\* SELECT COUNT(*) ... WHERE column > minimum AND column <= maximum
CountBetween(column, minimum, maximum) ==
    Cardinality({g \in DOMAIN column :
                    column[g] * Scale > minimum /\ column[g] * Scale <= maximum})

\* group_size of bins
GroupSize(column, n) == ((MaxOf(column) - MinOf(column)) * Scale) \div n

\* minimum and maximum of bins for a group (group = 0 is the first)
BinBounds(column, n, group) ==
    IF group = 0
    THEN [min |-> MinOf(column) * Scale, max |-> GroupSize(column, n)]
    ELSE [min |-> group * GroupSize(column, n), max |-> (group + 1) * GroupSize(column, n)]

\* results of bins
BinsResults(column, n) ==
    [i \in 1..n |->
        LET b == BinBounds(column, n, i - 1)
        IN  [min |-> b.min, max |-> b.max, count |-> CountBetween(column, b.min, b.max)]]

\* minimum and maximum of numeric_breaks for an index of break_points
BreakBounds(column, points, index) ==
    IF index = 0
    THEN [min |-> MinOf(column) * Scale, max |-> points[1] * Scale]
    ELSE IF index + 1 = Len(points)
    THEN [min |-> points[index] * Scale, max |-> MaxOf(column) * Scale]
    ELSE [min |-> points[index] * Scale, max |-> points[index + 1] * Scale]

\* results of numeric_breaks
NumericBreaksResults(column, points) ==
    [i \in 1..Len(points) |->
        LET b == BreakBounds(column, points, i - 1)
        IN  [min |-> b.min, max |-> b.max, count |-> CountBetween(column, b.min, b.max)]]

\* results of custom_break_values
CustomBreakResults(column, ranges) ==
    [i \in 1..Len(ranges) |->
        [min |-> ranges[i].min * Scale, max |-> ranges[i].max * Scale,
         count |-> CountBetween(column, ranges[i].min * Scale, ranges[i].max * Scale)]]

\* a classification request is routed and its body bound; the handler runs to
\* its first await, the call of generate_where_clause
ReceiveBreaks ==
    /\ ireq.pc = "idle"
    /\ \E column \in PopulationColumns :
          \/ \E number \in 0..MaxBins :
                ireq' = [IdleItems EXCEPT !.pc = "handler", !.op = "bins",
                            !.cls = [NoCls EXCEPT !.column = column, !.number = number]]
          \/ \E number \in 1..MaxBins :
                ireq' = [IdleItems EXCEPT !.pc = "handler", !.op = "numeric_breaks",
                            !.cls = [NoCls EXCEPT !.column = column, !.number = number]]
          \/ \E ranges \in RangeLists :
                ireq' = [IdleItems EXCEPT !.pc = "handler", !.op = "custom_break_values",
                            !.cls = [NoCls EXCEPT !.column = column, !.ranges = ranges]]
    /\ UNCHANGED <<cacheAge, db, dirs, files, treq, mut, stored, nReq, nMut>>

\* the response of a classification with its results
Classified(op, cls, results) ==
    [IdleItems EXCEPT !.pc = "done", !.op = op, !.status = 200,
                      !.cls = [cls EXCEPT !.results = results]]

\* the computation of bins on the answers of the storage engine, from the
\* MIN/MAX row to the return; number_of_bins = 0 divides by zero
BinsLoop ==
    /\ ireq.pc = "idle"
    /\ \E column \in PopulationColumns, n \in 0..MaxBins :
          LET cls == [NoCls EXCEPT !.column = column, !.number = n]
          IN  ireq' = IF n = 0
                      THEN [Unhandled(IdleItems, "ZeroDivisionError", "") EXCEPT
                               !.op = "bins", !.cls = cls]
                      ELSE Classified("bins", cls, BinsResults(column, n))
    /\ UNCHANGED <<cacheAge, db, dirs, files, treq, mut, stored, nReq, nMut>>

\* the computation of numeric_breaks on the answers of the storage engine:
\* break_points, the MIN row and the MAX row
NumericBreaksLoop ==
    /\ ireq.pc = "idle"
    /\ \E column \in PopulationColumns :
          \E points \in BreakPointLists(column) :
             ireq' = Classified("numeric_breaks",
                                [NoCls EXCEPT !.column = column, !.number = Len(points),
                                              !.points = points],
                                NumericBreaksResults(column, points))
    /\ UNCHANGED <<cacheAge, db, dirs, files, treq, mut, stored, nReq, nMut>>

\* the computation of custom_break_values on the counts of the storage engine
CustomBreaksLoop ==
    /\ ireq.pc = "idle"
    /\ \E column \in PopulationColumns, ranges \in RangeLists :
          ireq' = Classified("custom_break_values",
                             [NoCls EXCEPT !.column = column, !.ranges = ranges],
                             CustomBreakResults(column, ranges))
    /\ UNCHANGED <<cacheAge, db, dirs, files, treq, mut, stored, nReq, nMut>>

\* the classification endpoints
BreaksNext ==
    \/ ReceiveBreaks
    \/ \E op \in AnalyticsOps : Handle(op)
    \/ BinsLoop
    \/ NumericBreaksLoop
    \/ CustomBreaksLoop
    \/ ItemsFinish

SpecBreaks == Init /\ [][BreaksNext]_vars

\* the tile endpoint
TileNext ==
    \/ \E r \in TileReqs, t \in Tables, tms \in TileMatrixSets, tile \in Tiles,
          fields \in FieldsParams, filt \in FilterParams :
            TileLookup(r, t, tms, tile, fields, filt)
    \/ \E r \in TileReqs : TileQuery(r)
    \/ \E r \in TileReqs, mkdirOk \in BOOLEAN, openOk \in BOOLEAN :
            TileStore(r, mkdirOk, openOk)
    \/ \E r \in TileReqs : TileWrite(r)
    \/ \E r \in TileReqs : TileSend(r)
    \/ \E r \in TileReqs : TileFinish(r)

\* the endpoints that write rows or columns of a table
MutNext ==
    \/ \E m \in Mutators, kind \in RowKinds \cup ColumnKinds, t \in Tables, id \in Gids,
          infoId \in Gids, p \in Vals, g \in Vals, geomNull \in BOOLEAN, valid \in BOOLEAN :
            MutStart(m, kind, t, id, infoId, p, g, geomNull, valid)
    \/ \E m \in Mutators : MutWrite(m)
    \/ \E m \in Mutators : MutGeom(m)
    \/ \E m \in Mutators : MutInvalidate(m)

\* the cache administration endpoint
AdminNext ==
    \/ \E m \in Mutators, t \in Tables : DeleteTileCache(m, t)
    \/ \E m \in Mutators : MutFinish(m)

Next == TileNext \/ MutNext \/ AdminNext

Spec == Init /\ [][Next]_vars

\* tile requests whose cql_filter does not compile
BadFilterNext ==
    \E r \in TileReqs, t \in Tables, tms \in TileMatrixSets, tile \in Tiles,
       filt \in BadFilterParams :
         TileLookup(r, t, tms, tile, None, filt)

\* the tile endpoint and the cache administration endpoint alone
CacheNext == TileNext \/ BadFilterNext \/ AdminNext

SpecCache == Init /\ [][CacheNext]_vars

(* ------------------------------ properties ----------------------------- *)

\* the cache entry of a request's TileKey (table, tileMatrixSet, zoom, row, column)
KeyPath(q) == <<q.table[1] \o "_" \o q.table[2], q.tms, q.tile[1], q.tile[2], q.tile[3]>>

\* the request carries a fields selection or a cql filter
Dynamic(q) == q.fields # None \/ q.filt # None

\* C1: a tile request that carries a fields selection or a cql filter is never
\* answered from the cache: it runs a live query and its response is marked
\* as not served from cache, whatever the cache holds for its TileKey
\* (requests whose filter compiles).
C1_DynamicBypassesCache ==
    \A r \in TileReqs :
        (treq[r].pc # "idle" /\ Dynamic(treq[r]) /\ FilterError(treq[r].filt) = "none") =>
            /\ ~treq[r].tileCache
            /\ treq[r].pc = "done" => treq[r].live

\* C2: on a cache miss get_tile stores the computed tile under its TileKey iff
\* fields is unset, the cql filter is unset and the cache max-age is greater
\* than zero; in every other case the request leaves the cache as it was.
C2_StoreIffCacheable ==
    [][\A r \in TileReqs :
        LET q == treq[r]
            cond == q.fields = None /\ q.filt = None /\ cacheAge > 0
        IN  /\ (q.pc = "fetched" /\ treq'[r].pc # "fetched") =>
                IF cond
                THEN \/ treq'[r].pc = "write" /\ KeyPath(q) \in DOMAIN files'
                     \/ treq'[r].err = "cache_io" /\ files' = files
                ELSE treq'[r].pc = "done" /\ files' = files /\ dirs' = dirs
            /\ (q.pc = "write" /\ treq'[r].pc # "write") =>
                cond /\ files' = [files EXCEPT ![KeyPath(q)] = q.pbf]
            /\ (treq'[r] # q /\ q.pc \notin {"fetched", "write"}) =>
                files' = files /\ dirs' = dirs]_vars

\* C2 witness: a request without fields and filter missed, queried and stored
C2_Stored ==
    \E r \in TileReqs :
        /\ treq[r].pc = "done" /\ treq[r].live /\ treq[r].err = "none"
        /\ ~Dynamic(treq[r]) /\ treq[r].body # EmptyBytes
        /\ KeyPath(treq[r]) \in DOMAIN files /\ files[KeyPath(treq[r])] = treq[r].body

\* C3: after one or more completed stores of a key's bytes, with no invalidation
\* of the key's table since, a lookup of the key is a hit and the bytes served
\* are exactly the bytes stored.
C3_RoundTrip ==
    [][\A r \in TileReqs :
        /\ (treq[r].pc = "idle" /\ treq'[r].pc # "idle" /\ KeyPath(treq'[r]) \in DOMAIN stored) =>
                treq'[r].pc = "send" /\ treq'[r].tileCache
        /\ (treq[r].pc = "send" /\ treq'[r].pc = "done" /\ KeyPath(treq[r]) \in DOMAIN stored) =>
                /\ treq'[r].tileCache /\ treq'[r].status = 200
                /\ treq'[r].body = stored[KeyPath(treq[r])]]_vars

\* C3 witness: a request was served, from the cache, the bytes a store left
C3_ServedStored ==
    \E r \in TileReqs :
        /\ treq[r].pc = "done" /\ treq[r].tileCache /\ treq[r].err = "none"
        /\ KeyPath(treq[r]) \in DOMAIN stored
        /\ treq[r].body = stored[KeyPath(treq[r])] /\ treq[r].body # EmptyBytes

\* a key is cached only by a store made since the last invalidation of its table
CachedOnlyByStore ==
    \A p \in DOMAIN files :
        \/ p \in DOMAIN stored
        \/ \E r \in TileReqs : treq[r].pc = "write" /\ KeyPath(treq[r]) = p

\* C4: invalidateTable makes every key under the table absent in one operation
\* and succeeds when nothing is cached for the table; a key stored and then
\* invalidated is absent for the next lookup.
C4_Invalidation ==
    /\ [][/\ \A m \in Mutators :
                (mut[m].pc = "idle" /\ mut'[m].kind = "delete_tile_cache") =>
                    /\ mut'[m].status = 200
                    /\ \A p \in DOMAIN files' :
                            p[1] # mut'[m].table[1] \o "_" \o mut'[m].table[2]
          /\ \A r \in TileReqs :
                (treq[r].pc = "idle" /\ treq'[r].pc # "idle"
                    /\ KeyPath(treq'[r]) \notin DOMAIN stored) =>
                        treq'[r].pc = "query" /\ ~treq'[r].tileCache]_vars
    /\ []CachedOnlyByStore

\* C4 witness: a key was stored, its table's cache was deleted, and the next
\* lookup of the key found it absent
C4_StoredInvalidatedAbsent ==
    \E m \in Mutators, r1, r2 \in TileReqs :
        /\ mut[m].pc = "done" /\ mut[m].kind = "delete_tile_cache" /\ mut[m].status = 200
        /\ treq[r1].pc = "done" /\ treq[r1].live /\ treq[r1].err = "none"
        /\ ~Dynamic(treq[r1]) /\ cacheAge > 0
        /\ treq[r1].table = mut[m].table
        /\ treq[r2].pc = "query" /\ KeyPath(treq[r2]) = KeyPath(treq[r1])
        /\ KeyPath(treq[r1]) \notin DOMAIN files

\* C5: every row or schema mutation that reaches the table invalidates the
\* table's cache: once the mutating operation has ended, whether it returned
\* success or failed after its first write, no tile cached before it began is
\* still cached.
C5_MutationInvalidates ==
    \A m \in Mutators :
        (mut[m].pc = "done" /\ mut[m].wrote) => mut[m].pre = {}

\* no tile request and no mutation is in flight
Quiescent ==
    /\ \A r \in TileReqs : treq[r].pc \in {"idle", "done"}
    /\ \A m \in Mutators : mut[m].pc \in {"idle", "done"}

\* C6: once mutations have stopped and every request in flight has completed,
\* every cached tile equals the tile a live query of the final table state
\* gives: no stale artifact stays cached.
C6_QuiescentCoherent ==
    Quiescent =>
        \A t \in Tables, tms \in TileMatrixSets, tile \in Tiles :
            LET p == <<t[1] \o "_" \o t[2], tms, tile[1], tile[2], tile[3]>>
            IN  p \in DOMAIN files => files[p] = LiveTile(t, tile)

\* C7: for a TileKey whose query result is empty every request is answered 204,
\* on the first request and on every request made after the empty payload was
\* stored.
C7_EmptyIsNoContent ==
    \A r \in TileReqs :
        (/\ treq[r].pc = "done" /\ treq[r].err = "none" /\ ~Dynamic(treq[r])
         /\ LiveTile(treq[r].table, treq[r].tile) = EmptyBytes)
            => treq[r].status = 204

\* C8: a local failure to read or write a cache entry never fails the tile
\* request: the request is answered with the live-query payload (requests
\* whose filter compiles).
C8_CacheErrorsRecovered ==
    \A r \in TileReqs :
        (treq[r].pc = "done" /\ FilterError(treq[r].filt) = "none") =>
            treq[r].err # "cache_io" /\ treq[r].status \in {200, 204}

\* C9: the max-age of a tile response is 0 whenever the request supplied a cql
\* filter or a fields selection (either one), and the configured cache max-age
\* only when it supplied neither.
C9_MaxAgeZeroWhenDynamic ==
    \A r \in TileReqs :
        (treq[r].pc = "done" /\ treq[r].err = "none") =>
            treq[r].maxAge = IF Dynamic(treq[r]) THEN 0 ELSE cacheAge

\* C10: two concurrent misses of one TileKey may both query and both store; with
\* no mutation between their queries the bytes left in the cache are the payload
\* either computed, and no request is ever served a partially written artifact.
C10_ConcurrentMisses ==
    /\ \A r1, r2 \in TileReqs :
        (/\ r1 # r2 /\ KeyPath(treq[r1]) = KeyPath(treq[r2])
         /\ \A r \in {r1, r2} : /\ treq[r].pc = "done" /\ treq[r].live
                                /\ treq[r].err = "none" /\ ~Dynamic(treq[r])
         /\ KeyPath(treq[r1]) \in DOMAIN files)
            => files[KeyPath(treq[r1])] \in {treq[r1].body, treq[r2].body}
    /\ \A r \in TileReqs :
        (treq[r].pc = "done" /\ treq[r].tileCache /\ treq[r].err = "none")
            => treq[r].body = LiveTile(treq[r].table, treq[r].tile)

\* the cache entries of the TileKeys of the model
KeyPaths ==
    {<<t[1] \o "_" \o t[2], tms, tile[1], tile[2], tile[3]>> :
        t \in Tables, tms \in TileMatrixSets, tile \in Tiles}

\* the requests that missed the key and have not yet stored or answered
Missing(p) == {r \in TileReqs : treq[r].pc \in {"query", "fetched"} /\ KeyPath(treq[r]) = p}

\* the state of a TileKey: Cached when its artifact exists, Pending when a miss
\* of the key is running its live query, Absent otherwise
KeyState(p) ==
    IF p \in DOMAIN files THEN "Cached"
    ELSE IF Missing(p) # {} THEN "Pending" ELSE "Absent"

\* every cache file is the artifact of one TileKey, and a TileKey has one path
OneArtifactPerKey ==
    /\ DOMAIN files \subseteq KeyPaths
    /\ \A t \in Tables, tms \in TileMatrixSets, tile \in Tiles :
        Cardinality({p \in DOMAIN files :
            p = <<t[1] \o "_" \o t[2], tms, tile[1], tile[2], tile[3]>>}) <= 1

AssembledWheres == {ireq.where, ireq.query.where, ireq.count_query.where}

\* C12: in every query assembled for the storage collaborator every
\* caller-supplied literal (filter literal, column-equality value, bounding-box
\* coordinates) is a bound parameter and is never written into the query text:
\* the parameters are exactly the literals, in order.
C12_LiteralsOnlyBound ==
    /\ \A w \in AssembledWheres : \A i \in DOMAIN w : ~w[i].inl
    /\ \A qq \in {ireq.query, ireq.count_query} :
        /\ Len(qq.args) = Len(qq.where)
        /\ \A i \in DOMAIN qq.where : qq.args[i] = qq.where[i].val

\* the request went through a handler's validation of properties
PropertiesAccepted(q) ==
    q.op \in {"items", "post_items"} =>
        BadProperties(q.properties, CatalogColumns(q.op, q.added)) = << >>

\* the request's filter parses and names a column the catalog does not have
UnknownColumnFilter(q) ==
    /\ q.op \in FeatureOps /\ q.filt # None /\ PropertiesAccepted(q)
    /\ Parse(q.filt).exc = "none"
    /\ Parse(q.filt).column \notin SeqToSet(CatalogColumns(q.op, q.added))

\* the request's filter does not parse
UnparsableFilter(q) ==
    /\ q.op \in FeatureOps /\ q.filt # None /\ PropertiesAccepted(q)
    /\ Parse(q.filt).exc # "none"

\* no data query and no count query was sent to the storage engine
NoDataQuery(q) == \A i \in DOMAIN q.executed : q.executed[i] \notin {"data", "count"}

C15_UnparsableRejected ==
    (ireq.pc = "done" /\ UnparsableFilter(ireq)) =>
        /\ ireq.status = 400
        /\ ireq.detail = <<"Invalid operator used in cql_filter.">>
        /\ NoDataQuery(ireq)

\* C16: a filter that fails to parse or references an unknown column, given to
\* the tile, statistics, bins, numeric_breaks or custom_break_values operation,
\* is reported to the caller as a rejected-request error (a 4xx status) before
\* the filtered query executes; it never becomes an unhandled failure.
C16_FilterErrorsRejected ==
    /\ \A r \in TileReqs :
        (treq[r].pc = "done" /\ FilterError(treq[r].filt) # "none") =>
            /\ treq[r].status \in 400..499
            /\ ~treq[r].live
    /\ (/\ ireq.pc = "done" /\ ireq.op \in AnalyticsOps /\ ireq.filt # None
        /\ \/ Parse(ireq.filt).exc # "none"
           \/ Parse(ireq.filt).column \notin SeqToSet(CatalogColumns(ireq.op, ireq.added)))
            => ireq.status \in 400..499 /\ NoDataQuery(ireq)

\* C17: when GET items or POST items is given an explicit comma-separated
\* properties list, the request is rejected with status 400 unless every entry
\* is a catalog column, and no data query is executed on rejection; when the
\* caller requests "*", the projection is every catalog column.
C17_PropertiesValidated ==
    (ireq.pc = "done" /\ ireq.op \in {"items", "post_items"}) =>
        LET catalog == CatalogColumns(ireq.op, ireq.added)
            unknown == {c \in SeqToSet(ireq.properties) : c \notin SeqToSet(catalog)}
            rejected == /\ ireq.status = 400 /\ Len(ireq.detail) = 7
                        /\ ireq.detail[1] = "Column: "
        IN  /\ (ireq.properties # Star /\ unknown # {}) =>
                    /\ rejected /\ NoDataQuery(ireq)
                    /\ ireq.detail[2] \in unknown
                    /\ ireq.detail[3] = " is not a column for "
                    /\ <<ireq.detail[4], ireq.detail[6]>> = <<"public", "states">>
            /\ rejected => ireq.properties # Star /\ unknown # {}
            \* the handler went on to its call of get_table_geojson
            /\ (ireq.properties = Star /\ ireq.exc = "TypeError") => ireq.projection = catalog

\* C17 witness: GET items was given a list with an entry that is not a column
\* and rejected it
C17_ListRejected ==
    /\ ireq.pc = "done" /\ ireq.op = "items" /\ ireq.properties = <<"gid", "state_names">>
    /\ ireq.status = 400 /\ ireq.executed = <<"catalog">>

\* the equality predicates of a WHERE clause on a column
EqualitiesOn(where, c) == {i \in DOMAIN where : where[i].k = "eq" /\ where[i].col = c}

\* C18: GET items adds exactly one equality predicate for each extra query
\* parameter whose name is a catalog column and ignores every other extra
\* parameter (the request succeeds); the declared request parameters never
\* become equality predicates.
C18_ColumnEqualities ==
    (ireq.pc = "done" /\ ireq.op = "items" /\ ireq.status # 400) =>
        LET catalog == SeqToSet(CatalogColumns("items", ireq.added))
        IN  /\ \A c \in catalog :
                    Cardinality(EqualitiesOn(ireq.where, c)) =
                        IF c \in ireq.params \ DeclaredParameters THEN 1 ELSE 0
            /\ \A i \in DOMAIN ireq.where :
                    ireq.where[i].k = "eq" => ireq.where[i].col \in catalog
            /\ ireq.status = 200

\* C19: the count query carries exactly the predicates of the data query and
\* never limit, offset or order-by, so numberMatched is the same for every
\* (limit, offset) page of the same filtered request.
C19_CountIgnoresPaging ==
    (ireq.op = "get_table_geojson" /\ ireq.pc # "idle") =>
        /\ ireq.count_query.where = ireq.query.where
        /\ ireq.count_query.orderBy = << >>
        /\ ireq.count_query.limit = -1 /\ ireq.count_query.offset = -1
        /\ (ireq.pc = "done" /\ ireq.status = 200) =>
                ireq.numberMatched =
                    Cardinality({g \in DOMAIN StateRows :
                        /\ ireq.where # << >> => StateRows[g].state_name = "New York"
                        /\ ireq.bbox # None => StateRows[g].box})

\* C19 witness: a page after the first of a filtered request was returned and
\* more rows match than the page holds
C19_LaterPageCounted ==
    /\ ireq.pc = "done" /\ ireq.op = "get_table_geojson" /\ ireq.where # << >>
    /\ ireq.offset > 0 /\ ireq.limit > 0 /\ Len(ireq.features) > 0
    /\ ireq.numberMatched > Len(ireq.features)

\* C20: when no explicit sort column is given the data query orders rows by
\* gid ascending, so the rows of a page come in ascending gid order on every
\* call.
C20_DefaultOrderByGid ==
    (ireq.op = "get_table_geojson" /\ ireq.sortby = "gid" /\ ireq.pc \in {"count", "done"}) =>
        /\ ireq.query.orderBy = <<"gid", "asc">>
        /\ \A i, j \in DOMAIN ireq.features : i < j => ireq.features[i] < ireq.features[j]

\* the kinds of a sequence of predicates
Kinds(parts) == [i \in DOMAIN parts |-> parts[i].k]

RECURSIVE JoinedByAnd(_)
JoinedByAnd(kinds) ==
    IF kinds = << >> THEN << >>
    ELSE IF Len(kinds) = 1 THEN kinds
    ELSE <<kinds[1], "AND">> \o JoinedByAnd(Tail(kinds))

\* a filter clause over the predicates given to get_table_geojson, each kind
\* once, in the order named: WHERE once, AND between, nothing when none is there
ClauseInOrder(q, order) ==
    LET present == SeqToSet(Kinds(q.where)) \cup (IF q.bbox # None THEN {"bbox"} ELSE {})
        kinds == SelectSeq(order, LAMBDA k : k \in present)
    IN  IF kinds = << >> THEN << >> ELSE <<"WHERE">> \o JoinedByAnd(kinds)

\* a data query of get_table_geojson has been assembled
Assembled(q) == q.op = "get_table_geojson" /\ q.pc \in {"data", "count", "done"}

\* C21: the data query's filter clause is the AND-conjunction of exactly the
\* predicates that are present, in the order compiled filter, bounding box,
\* column equalities; it is introduced once and omitted when none is present.
C21_MergeOrder ==
    Assembled(ireq) => ireq.query.text = ClauseInOrder(ireq, <<"filter", "bbox", "eq">>)

\* C21 amended: the filter clause is the AND-conjunction of exactly the
\* predicates that are present, in the order compiled filter, column
\* equalities, bounding box; it is introduced by WHERE exactly once and is
\* omitted when none is present; the handler's merged filter has the compiled
\* filter before the column equalities.
C21_MergeOrderFilterEqualitiesBbox ==
    /\ Assembled(ireq) =>
          /\ ireq.query.text = ClauseInOrder(ireq, <<"filter", "eq", "bbox">>)
          /\ Cardinality({i \in DOMAIN ireq.query.text : ireq.query.text[i] = "WHERE"})
                = (IF ireq.where = << >> /\ ireq.bbox = None THEN 0 ELSE 1)
          /\ Kinds(ireq.query.where) = SelectSeq(ireq.query.text, LAMBDA w : w \notin {"WHERE", "AND"})
    /\ \A i, j \in DOMAIN ireq.where :
          (i < j /\ ireq.where[j].k = "filter") => ireq.where[i].k = "filter"

\* C21 witness: a data query whose clause joins a compiled filter, a column
\* equality and the bounding box
C21_AllThreeMerged ==
    /\ Assembled(ireq)
    /\ ireq.query.text = <<"WHERE", "filter", "AND", "eq", "AND", "bbox">>

\* the asyncpg exceptions of the storage errors: undefined column, undefined
\* table, invalid literal
StorageExceptions ==
    {"UndefinedColumnError", "UndefinedTableError", "InvalidTextRepresentationError"}

\* C22: a storage error raised while an assembled query is executed is
\* answered with status 400 and the storage engine's message as the detail.
C22_StorageErrorsRejected ==
    (ireq.pc = "done" /\ ireq.exc \in StorageExceptions) =>
        ireq.status = 400 /\ ireq.detail = <<ireq.excArg>>

\* the column's true minimum and maximum and the width of n equal bins, as
\* multiples of 1/Scale
TrueMin(cls) == MinOf(cls.column) * Scale
TrueMax(cls) == MaxOf(cls.column) * Scale
Width(cls) == (TrueMax(cls) - TrueMin(cls)) \div cls.number

\* a classification of the endpoint was answered with its breaks
Answered(op) == ireq.op = op /\ ireq.pc = "done" /\ ireq.status = 200

\* the rows whose value lies in (lo, hi], or in [lo, hi] when closed
RowsIn(cls, lo, hi, closed) ==
    Cardinality({g \in DOMAIN cls.column :
        /\ cls.column[g] * Scale <= hi
        /\ cls.column[g] * Scale > lo \/ (closed /\ cls.column[g] * Scale = lo)})

\* C23: equal-interval bins: bucket 0 spans [min, min + width] and counts the
\* rows equal to min, every later bucket spans (prevMax, prevMax + width], so
\* the first bucket's min is the true minimum and the last bucket's max the
\* true maximum, whatever the minimum is.
C23_EqualIntervalBuckets ==
    Answered("bins") =>
        LET cls == ireq.cls
            r == cls.results
        IN  /\ Len(r) = cls.number
            /\ r[1].min = TrueMin(cls) /\ r[1].max = TrueMin(cls) + Width(cls)
            /\ r[1].count = RowsIn(cls, r[1].min, r[1].max, TRUE)
            /\ \A i \in 2..Len(r) :
                  /\ r[i].min = r[i - 1].max /\ r[i].max = r[i].min + Width(cls)
                  /\ r[i].count = RowsIn(cls, r[i].min, r[i].max, FALSE)
            /\ r[Len(r)].max = TrueMax(cls)

RECURSIVE SumCounts(_)
SumCounts(r) == IF r = << >> THEN 0 ELSE r[1].count + SumCounts(Tail(r))

\* C24: for equal-interval bins every row of the column is counted in exactly
\* one bucket: the counts sum to the number of rows.
C24_CountsSumToRows ==
    Answered("bins") => SumCounts(ireq.cls.results) = Len(ireq.cls.column)

\* C25: numeric_breaks turns every non-empty sequence of break points into
\* one break per point, each beginning where the one before it ends, the first
\* beginning at the true minimum and the last ending at the true maximum.
C25_StitchedBreaks ==
    Answered("numeric_breaks") =>
        LET cls == ireq.cls
            r == cls.results
        IN  /\ Len(r) = Len(cls.points)
            /\ \A i \in 2..Len(r) : r[i].min = r[i - 1].max
            /\ r[1].min = TrueMin(cls)
            /\ r[Len(r)].max = TrueMax(cls)

\* C26: custom_break_values answers every request with one break per range,
\* in the caller's order, min and max as given, each counted on its own; a
\* range without rows has count 0 and is no error.
C26_CustomBreaks ==
    (ireq.op = "custom_break_values" /\ ireq.pc = "done") =>
        LET cls == ireq.cls
            r == cls.results
        IN  /\ ireq.status = 200
            /\ Len(r) = Len(cls.ranges)
            /\ \A i \in DOMAIN r :
                  /\ r[i].min = cls.ranges[i].min * Scale
                  /\ r[i].max = cls.ranges[i].max * Scale
                  /\ r[i].count = RowsIn(cls, r[i].min, r[i].max, FALSE)

(* ---------------------- tables with underscores ------------------------ *)

\* two tables whose schema and table names hold an underscore
AliasTables == {<<"a_b", "c">>, <<"a", "b_c">>}

\* the service over a database that holds the two tables
InitAlias ==
    /\ cacheAge \in CacheAges
    /\ db \in [AliasTables -> InitialTables]
    /\ dirs = {}
    /\ files = << >>
    /\ treq = [r \in TileReqs |-> IdleReq]
    /\ mut = [m \in Mutators |-> IdleMut]
    /\ stored = << >>
    /\ nReq = 0
    /\ nMut = 0
    /\ ireq = IdleItems

\* the tile endpoint and the cache administration endpoint, asked about the
\* two tables without fields and without filter
AliasNext ==
    \/ \E r \in TileReqs, t \in AliasTables, tms \in TileMatrixSets, tile \in Tiles :
            TileLookup(r, t, tms, tile, None, None)
    \/ \E r \in TileReqs : TileQuery(r)
    \/ \E r \in TileReqs, mkdirOk \in BOOLEAN, openOk \in BOOLEAN :
            TileStore(r, mkdirOk, openOk)
    \/ \E r \in TileReqs : TileWrite(r)
    \/ \E r \in TileReqs : TileSend(r)
    \/ \E r \in TileReqs : TileFinish(r)
    \/ \E m \in Mutators, t \in AliasTables : DeleteTileCache(m, t)
    \/ \E m \in Mutators : MutFinish(m)

SpecAlias == InitAlias /\ [][AliasNext]_vars

\* a tile served from the cache is the tile of the request's own table: no
\* row of either table changes, so that is the table's live tile, or the empty
\* content of a file that a store of the same key has just opened
ServedOwnTile ==
    \A r \in TileReqs :
        (treq[r].pc = "done" /\ treq[r].tileCache /\ treq[r].status = 200) =>
            treq[r].body \in {LiveTile(treq[r].table, treq[r].tile), EmptyBytes}

\* the cache entries of a table's tile keys
EntriesOf(t) == {CacheFile(t, tms, tile) : tms \in TileMatrixSets, tile \in Tiles}

\* delete_tile_cache of one table leaves the entries of every other table
OthersKept ==
    \A m \in Mutators, t \in AliasTables :
        DeleteTileCache(m, t) =>
            \A u \in AliasTables \ {t} :
                \A p \in EntriesOf(u) \cap DOMAIN files :
                    p \in DOMAIN files' /\ files'[p] = files[p]

\* C27: for two distinct (schema, table) pairs, names with underscores
\* included, a tile stored for one is never served for the other, and the
\* invalidation of one leaves every cached entry of the other unchanged.
C27_CacheIsolation == []ServedOwnTile /\ [][OthersKept]_vars

(* --------------------------- item updates ------------------------------ *)

\* the gids of a table with two rows, and the values its rows and an update
\* may carry
ItemGids == {1, 2}
ItemVals == 1..(MaxVal + 1)

\* the service over a table of up to two rows
InitUpdate ==
    /\ cacheAge \in CacheAges
    /\ db \in [Tables -> {[rows |-> rs, extra |-> FALSE] :
                            rs \in [ItemGids -> {NoRow} \cup [p : ItemVals, g : ItemVals]]}]
    /\ dirs = {}
    /\ files = << >>
    /\ treq = [r \in TileReqs |-> IdleReq]
    /\ mut = [m \in Mutators |-> IdleMut]
    /\ stored = << >>
    /\ nReq = 0
    /\ nMut = 0
    /\ ireq = IdleItems

\* PUT and PATCH of an item: the path id and the id of the feature in the body
\* are two inputs of update_item
UpdateNext ==
    \/ \E m \in Mutators, kind \in {"update_item", "modify_item"}, t \in Tables,
          id \in ItemGids, infoId \in ItemGids, p \in ItemVals, g \in ItemVals,
          geomNull \in BOOLEAN, valid \in BOOLEAN :
            MutStart(m, kind, t, id, infoId, p, g, geomNull, valid)
    \/ \E m \in Mutators : MutWrite(m)
    \/ \E m \in Mutators : MutGeom(m)
    \/ \E m \in Mutators : MutInvalidate(m)
    \/ \E m \in Mutators : MutFinish(m)

SpecUpdate == InitUpdate /\ [][UpdateNext]_vars

\* every statement of a running update_item leaves the rows other than the
\* row of the path id as they are
OnlyPathRowWritten ==
    \A m \in Mutators :
        (mut[m].kind = "update_item" /\ mut[m].pc \in {"write", "geom"}) =>
            \A t \in Tables, h \in ItemGids \ {mut[m].id} :
                db'[t].rows[h] = db[t].rows[h]

\* C30: update_item changes only the row whose gid is the path id: the
\* property update and the geometry update target the row the existence check
\* found, whatever id the feature of the body carries; no other row changes.
C30_UpdateOnlyPathRow == [][OnlyPathRowWritten]_vars

(* ---------------------------- pagination ------------------------------- *)

\* the filters of a walk through the pages of a collection
WalkFilters ==
    {<< >>, <<[k |-> "filter", col |-> "state_name", val |-> "New York", inl |-> FALSE]>>}

\* the "next" and "prev" links of GET items and POST items: the offsets of
\* their hrefs
Links(numberReturned, numberMatched, offset, limit) ==
    [next |-> IF numberReturned + offset < numberMatched THEN offset + limit ELSE -1,
     prev |-> IF offset - limit > -1 THEN offset - limit ELSE -1]

\* a request for one page: get_table_geojson up to the data query; walked is
\* the features of the pages the client has been given so far
PageRequest(filter, limit, offset, sortby, walked) ==
    [IdleItems EXCEPT
        !.pc = "data", !.op = "get_table_geojson", !.where = filter,
        !.limit = limit, !.offset = offset, !.properties = Star, !.sortby = sortby,
        !.query = DataQuery(filter, None, limit, offset, Star, sortby, 1),
        !.count_query = CountQuery(filter, None, limit, offset),
        !.walked = walked]

\* a client asks for the first page
WalkStart ==
    /\ ireq.pc = "idle"
    /\ \E filter \in WalkFilters, limit \in 0..MaxLimit, sortby \in SortColumns :
          ireq' = PageRequest(filter, limit, 0, sortby, << >>)
    /\ UNCHANGED <<cacheAge, db, dirs, files, treq, mut, stored, nReq, nMut>>

\* the handler's code after get_table_geojson has returned: the links
ItemsLinks ==
    /\ ireq.pc = "done" /\ ireq.op = "get_table_geojson" /\ ireq.status = 200
    /\ ireq' = [ireq EXCEPT !.pc = "linked",
                            !.links = Links(Len(ireq.features), ireq.numberMatched,
                                            ireq.offset, ireq.limit),
                            !.walked = @ \o ireq.features]
    /\ UNCHANGED <<cacheAge, db, dirs, files, treq, mut, stored, nReq, nMut>>

\* the client follows the "next" link of the page it was given
FollowNext ==
    /\ ireq.pc = "linked" /\ ireq.links.next # -1
    /\ ireq' = PageRequest(ireq.where, ireq.limit, ireq.links.next, ireq.sortby,
                           ireq.walked)
    /\ UNCHANGED <<cacheAge, db, dirs, files, treq, mut, stored, nReq, nMut>>

\* the last page has no "next" link: the walk is over
WalkFinish ==
    /\ ireq.pc = "linked" /\ ireq.links.next = -1
    /\ ireq' = IdleItems
    /\ UNCHANGED <<cacheAge, db, dirs, files, treq, mut, stored, nReq, nMut>>

\* a client walking through the pages of an unchanged table
WalkNext ==
    \/ WalkStart
    \/ \E order \in UNION {Perms(S) : S \in SUBSET DOMAIN StateRows} : GeoData(order)
    \/ GeoCount
    \/ ItemsLinks
    \/ FollowNext
    \/ WalkFinish

\* every request is answered and the client goes on following links
SpecWalk == Init /\ [][WalkNext]_vars /\ WF_vars(WalkNext)

\* a page with its links has been answered
Linked == ireq.pc = "linked"

\* the links of a page: next iff offset + numberReturned < numberMatched, at
\* offset + limit; prev iff offset - limit >= 0, at offset - limit
LinksRight ==
    Linked =>
        /\ ireq.links.next # -1 <=> ireq.offset + Len(ireq.features) < ireq.numberMatched
        /\ ireq.links.next # -1 => ireq.links.next = ireq.offset + ireq.limit
        /\ ireq.links.prev # -1 <=> ireq.offset - ireq.limit >= 0
        /\ ireq.links.prev # -1 => ireq.links.prev = ireq.offset - ireq.limit

\* the pages of a finished walk hold every matched row exactly once
CoveredOnce ==
    (Linked /\ ireq.links.next = -1) =>
        /\ Len(ireq.walked) = Cardinality(Matching(ireq.where))
        /\ SeqToSet(ireq.walked) = Matching(ireq.where)

\* C28: on an unchanged table and for every limit >= 0, following the "next"
\* links from offset 0 reaches a page without a next link; each step advances
\* the offset by limit, the pages hold every matched row exactly once, and the
\* next and prev links are present exactly when the claim says.
C28_PaginationWalk ==
    /\ []LinksRight
    /\ []CoveredOnce
    /\ (ireq.pc = "data") ~> (Linked /\ ireq.links.next = -1)

(* ----------------------- reads beside writes --------------------------- *)

\* the gids of the rows the table holds now
TableGids(t) == {g \in DOMAIN db[t].rows : db[t].rows[g] # NoRow}

\* a page of the table is asked for, without filter and in the default order
LiveStart ==
    /\ ireq.pc = "idle"
    /\ \E limit \in 1..MaxLimit, offset \in 0..1 :
          ireq' = PageRequest(<< >>, limit, offset, "gid", << >>)
    /\ UNCHANGED <<cacheAge, db, dirs, files, treq, mut, stored, nReq, nMut>>

\* the storage engine answers the data query from the rows the table holds now
LiveData ==
    /\ ireq.pc = "data"
    /\ \E order \in Orders(TableGids(ItemsTable), ireq.query.orderBy) :
          ireq' = [ireq EXCEPT !.pc = "count",
                          !.features = Page(order, ireq.query.offset, ireq.query.limit),
                          !.executed = @ \o <<"data">>]
    /\ UNCHANGED <<cacheAge, db, dirs, files, treq, mut, stored, nReq, nMut>>

\* the storage engine answers the count query, a statement of its own, from
\* the rows the table holds now
LiveCount ==
    /\ ireq.pc = "count"
    /\ ireq' = [ireq EXCEPT !.pc = "done", !.status = 200,
                            !.numberMatched = Cardinality(TableGids(ItemsTable)),
                            !.executed = @ \o <<"count">>]
    /\ UNCHANGED <<cacheAge, db, dirs, files, treq, mut, stored, nReq, nMut>>

\* an items request beside a request that inserts or deletes a row
RaceNext ==
    \/ LiveStart
    \/ LiveData
    \/ LiveCount
    \/ ItemsFinish
    \/ \E m \in Mutators, kind \in {"create_item", "delete_item"}, t \in Tables,
          id \in ItemGids, p \in Vals, g \in Vals, geomNull \in BOOLEAN, valid \in BOOLEAN :
            MutStart(m, kind, t, id, id, p, g, geomNull, valid)
    \/ \E m \in Mutators : MutWrite(m)
    \/ \E m \in Mutators : MutGeom(m)
    \/ \E m \in Mutators : MutInvalidate(m)
    \/ \E m \in Mutators : MutFinish(m)

SpecRace == InitUpdate /\ [][RaceNext]_vars

\* C29: the features and numberMatched of one items response describe the
\* same table state: a response with at least one feature has
\* offset + numberReturned <= numberMatched, also when another request inserts
\* or deletes rows between its data query and its count query.
C29_CountCoversPage ==
    (ireq.op = "get_table_geojson" /\ ireq.pc = "done" /\ ireq.status = 200
        /\ Len(ireq.features) > 0) =>
            ireq.offset + Len(ireq.features) <= ireq.numberMatched

====
